---------------------------- MODULE Spec2Model ----------------------------
(***************************************************************************)
(* The TodoListCopilot component: an ordered collection of todo items with *)
(* an add form, per-item toggle / delete / edit, and the validation that   *)
(* decides whether a typed text becomes a stored item.                     *)
(*                                                                         *)
(* A text is a sequence of characters; a character is a one-character      *)
(* string.  Indices are those of the code (0-based): the item at index i   *)
(* is todos[i + 1].                                                        *)
(***************************************************************************)
EXTENDS Integers, Sequences, FiniteSets

(***************************************************************************)
(* Bounds of the model.                                                    *)
(***************************************************************************)
\* longest raw text drawn for the exhaustive input specification
MaxLen == 3
\* largest collection the add handler is allowed to build
MaxTodos == 3
\* largest collection the exhaustive input specification starts from
MaxSeed == 2

(***************************************************************************)
(* Characters.  One representative per class the code distinguishes:       *)
(* a lower-case letter, its upper-case form, a digit, the space, a         *)
(* white-space character other than the space (the tab, matched by \s and  *)
(* stripped by trim), and a character outside [a-zA-Z0-9\s].               *)
(***************************************************************************)
Alphabet == {"a", "A", "1", " ", "\t", "!"}

\* the class [a-zA-Z0-9] of the regular expressions
Alphanumeric == {"a", "A", "1"}

\* the class \s of the regular expressions, and what String.trim strips
WhiteSpace == {" ", "\t"}

\* String.prototype.toUpperCase, one character
UpperChar(c) == IF c = "a" THEN "A" ELSE c

\* String.prototype.toLowerCase, one character
LowerChar(c) == IF c = "A" THEN "a" ELSE c

toUpperCase(s) == [i \in 1..Len(s) |-> UpperChar(s[i])]

toLowerCase(s) == [i \in 1..Len(s) |-> LowerChar(s[i])]

RECURSIVE trimStart(_)
trimStart(s) ==
  IF s # <<>> /\ Head(s) \in WhiteSpace THEN trimStart(Tail(s)) ELSE s

RECURSIVE trimEnd(_)
trimEnd(s) ==
  IF s # <<>> /\ s[Len(s)] \in WhiteSpace
    THEN trimEnd(SubSeq(s, 1, Len(s) - 1))
    ELSE s

trim_Once(s) ==
  LET rest == IF s # <<>> /\ Head(s) \in WhiteSpace THEN Tail(s) ELSE s
  IN  IF rest # <<>> /\ rest[Len(rest)] \in WhiteSpace
        THEN SubSeq(rest, 1, Len(rest) - 1)
        ELSE rest

\* String.prototype.trim
trim(s) == trimEnd(trimStart(s))

\* /[^a-zA-Z0-9\s]/.test(s)
HasDisallowed(s) == \E i \in 1..Len(s) : s[i] \notin (Alphanumeric \cup WhiteSpace)

IsAllowedChar(c) == c \in (Alphanumeric \cup WhiteSpace)

\* s.replace(/[^a-zA-Z0-9\s]/g, '')
StripDisallowed(s) == SelectSeq(s, IsAllowedChar)

\* s.charAt(0): the empty string when s is empty
charAt0(s) == IF s = <<>> THEN <<>> ELSE <<s[1]>>

\* s.slice(1)
slice1(s) == IF s = <<>> THEN <<>> ELSE Tail(s)

(***************************************************************************)
(* The texts a user types.                                                 *)
(***************************************************************************)
RECURSIVE TextsOfLen(_)
TextsOfLen(n) ==
  IF n = 0 THEN {<<>>}
  ELSE {Append(s, c) : s \in TextsOfLen(n - 1), c \in Alphabet}

\* every text over Alphabet of at most MaxLen characters
RawInputs == UNION {TextsOfLen(n) : n \in 0..MaxLen}

\* the texts typed into the two fields in the interactive specification
TypedInputs ==
  { <<>>, <<"a">>, <<"A">>, <<" ", "1">>, <<"a", "!">>, <<"a", "\t", "a">> }

(***************************************************************************)
(* The validation messages.                                                *)
(***************************************************************************)
MsgEmpty == "Please enter a todo item"
MsgInvalidCharacters == "Only letters, numbers, and spaces are allowed"
MsgDuplicate == "This todo item already exists"

(***************************************************************************)
(* State of the component (its useState hooks), and `last`, a record of    *)
(* the handler that ran last: its name, its index argument (-1 if none),   *)
(* and the text it validated (addTodo: input, saveEdit: editInput).        *)
(***************************************************************************)
VARIABLES todos, input, validationMessage, editingIndex, editInput, last

vars == <<todos, input, validationMessage, editingIndex, editInput, last>>

Indices == 0..(Len(todos) - 1)

Called(op, index, raw) ==
  last' = [op |-> op, index |-> index, raw |-> raw]

RemoveAt_First(seq, index) ==
  LET hit == index \in 0..(Len(seq) - 1)
  IN  [k \in 1..(Len(seq) - (IF hit THEN 1 ELSE 0)) |->
         IF hit THEN seq[k + 1] ELSE seq[k]]

RemoveAt_Splice(seq, index) ==
  LET at == IF index < 0 THEN Len(seq) + index ELSE index
      hit == at \in 0..(Len(seq) - 1)
  IN  [k \in 1..(Len(seq) - (IF hit THEN 1 ELSE 0)) |->
         IF ~hit \/ k <= at THEN seq[k] ELSE seq[k + 1]]

\* todos.filter((_, i) => i !== index)
RemoveAt(seq, index) ==
  LET hit == index \in 0..(Len(seq) - 1)
  IN  [k \in 1..(Len(seq) - (IF hit THEN 1 ELSE 0)) |->
         IF ~hit \/ k <= index THEN seq[k] ELSE seq[k + 1]]

ToggleAt_SetsTrue(seq, index) ==
  [k \in 1..Len(seq) |->
     IF k - 1 = index THEN [seq[k] EXCEPT !.completed = TRUE] ELSE seq[k]]

\* todos.map((todo, i) => i === index ? { ...todo, completed: !todo.completed } : todo)
ToggleAt(seq, index) ==
  [k \in 1..Len(seq) |->
     IF k - 1 = index THEN [seq[k] EXCEPT !.completed = ~seq[k].completed] ELSE seq[k]]

\* todos.map((todo, i) => i === index ? { ...todo, text: formattedText } : todo)
SetTextAt(seq, index, formattedText) ==
  [k \in 1..Len(seq) |->
     IF k - 1 = index THEN [seq[k] EXCEPT !.text = formattedText] ELSE seq[k]]

IsIncomplete(todo) == ~todo.completed

IsCompleted(todo) == todo.completed

getIncompleteTodos == SelectSeq(todos, IsIncomplete)

getCompletedTodos_NoFilter == todos

getCompletedTodos == SelectSeq(todos, IsCompleted)

isDuplicate_SkipsFirst(text, excludeIndex) ==
  \E index \in Indices :
    /\ index # excludeIndex + 1
    /\ toLowerCase(todos[index + 1].text) = toLowerCase(text)

isDuplicate_ActiveOnly(text, excludeIndex) ==
  \E index \in Indices :
    /\ index # excludeIndex
    /\ ~todos[index + 1].completed
    /\ toLowerCase(todos[index + 1].text) = toLowerCase(text)

isDuplicate_OnlyOnAdd(text, excludeIndex) ==
  \E index \in Indices :
    /\ excludeIndex = -1
    /\ toLowerCase(todos[index + 1].text) = toLowerCase(text)

isDuplicate_NoExclude(text, excludeIndex) ==
  \E index \in Indices :
    toLowerCase(todos[index + 1].text) = toLowerCase(text)

isDuplicate(text, excludeIndex) ==
  \E index \in Indices :
    /\ index # excludeIndex
    /\ toLowerCase(todos[index + 1].text) = toLowerCase(text)

formatText_KeepsCase(trimmedText) ==
  LET alphanumericOnly == StripDisallowed(trimmedText)
  IN  toUpperCase(charAt0(alphanumericOnly)) \o slice1(alphanumericOnly)

\* the lines under "Format the text": strip, then capitalize
formatText(trimmedText) ==
  LET alphanumericOnly == StripDisallowed(trimmedText)
  IN  toUpperCase(charAt0(alphanumericOnly)) \o toLowerCase(slice1(alphanumericOnly))

Invalid(message) == [isValid |-> FALSE, formattedText |-> <<>>, message |-> message]

validateAndFormatText_EmptyBeforeTrim(text, excludeIndex) ==
  LET trimmedText == trim(text)
      formattedText == formatText(trimmedText)
  IN  IF text = <<>> THEN Invalid(MsgEmpty)
      ELSE IF HasDisallowed(trimmedText) THEN Invalid(MsgInvalidCharacters)
      ELSE IF isDuplicate(formattedText, excludeIndex) THEN Invalid(MsgDuplicate)
      ELSE [isValid |-> TRUE, formattedText |-> formattedText, message |-> ""]

validateAndFormatText(text, excludeIndex) ==
  LET trimmedText == trim(text)
      formattedText == formatText(trimmedText)
  IN  IF trimmedText = <<>> THEN Invalid(MsgEmpty)
      ELSE IF HasDisallowed(trimmedText) THEN Invalid(MsgInvalidCharacters)
      ELSE IF isDuplicate(formattedText, excludeIndex) THEN Invalid(MsgDuplicate)
      ELSE [isValid |-> TRUE, formattedText |-> formattedText, message |-> ""]

(***************************************************************************)
(* What the render shows: the controls a user can reach.                   *)
(***************************************************************************)
\* the item at index i is listed under Active Tasks
IsActive(i) == i \in Indices /\ ~todos[i + 1].completed

EditShown_AnySection(i) == i \in Indices /\ editingIndex = i

\* the edit field with Save and Cancel is rendered for the item at index i
EditShown(i) == IsActive(i) /\ editingIndex = i

\* the Edit and Delete buttons are rendered for the active item at index i
ButtonsShown(i) == IsActive(i) /\ editingIndex # i

\* a Delete button is rendered for the item at index i
DeleteShown(i) == i \in Indices /\ (todos[i + 1].completed \/ ButtonsShown(i))

(***************************************************************************)
(* The handlers.                                                           *)
(***************************************************************************)
\* onChange of the add form's field
changeInput(value) ==
  /\ input' = value
  /\ validationMessage' = ""
  /\ Called("changeInput", -1, <<>>)
  /\ UNCHANGED <<todos, editingIndex, editInput>>

addTodo_Prepend ==
  LET result == validateAndFormatText(input, -1)
  IN  /\ result.isValid => Len(todos) < MaxTodos
      /\ Called("addTodo", -1, input)
      /\ IF ~result.isValid
           THEN /\ validationMessage' = result.message
                /\ UNCHANGED <<todos, input, editingIndex, editInput>>
           ELSE /\ todos' = <<[text |-> result.formattedText, completed |-> FALSE]>> \o todos
                /\ input' = <<>>
                /\ validationMessage' = ""
                /\ UNCHANGED <<editingIndex, editInput>>

addTodo_AppendsOnError ==
  LET result == validateAndFormatText(input, -1)
      text == IF result.isValid THEN result.formattedText ELSE formatText(trim(input))
  IN  /\ Len(todos) < MaxTodos
      /\ Called("addTodo", -1, input)
      /\ todos' = Append(todos, [text |-> text, completed |-> FALSE])
      /\ IF ~result.isValid
           THEN /\ validationMessage' = result.message
                /\ UNCHANGED <<input, editingIndex, editInput>>
           ELSE /\ input' = <<>>
                /\ validationMessage' = ""
                /\ UNCHANGED <<editingIndex, editInput>>

addTodo ==
  LET result == validateAndFormatText(input, -1)
  IN  /\ result.isValid => Len(todos) < MaxTodos
      /\ Called("addTodo", -1, input)
      /\ IF ~result.isValid
           THEN /\ validationMessage' = result.message
                /\ UNCHANGED <<todos, input, editingIndex, editInput>>
           ELSE /\ todos' = Append(todos, [text |-> result.formattedText, completed |-> FALSE])
                /\ input' = <<>>
                /\ validationMessage' = ""
                /\ UNCHANGED <<editingIndex, editInput>>

removeTodo(index) ==
  /\ todos' = RemoveAt(todos, index)
  /\ Called("removeTodo", index, <<>>)
  /\ UNCHANGED <<input, validationMessage, editingIndex, editInput>>

toggleTodo(index) ==
  /\ todos' = ToggleAt(todos, index)
  /\ Called("toggleTodo", index, <<>>)
  /\ UNCHANGED <<input, validationMessage, editingIndex, editInput>>

startEditing_EmptyField(index) ==
  /\ ButtonsShown(index)
  /\ editingIndex' = index
  /\ editInput' = <<>>
  /\ validationMessage' = ""
  /\ Called("startEditing", index, editInput)
  /\ UNCHANGED <<todos, input>>

startEditing_KeepsInput(index) ==
  /\ ButtonsShown(index)
  /\ editingIndex' = index
  /\ editInput' = IF editingIndex = -1 THEN todos[index + 1].text ELSE editInput
  /\ validationMessage' = ""
  /\ Called("startEditing", index, editInput)
  /\ UNCHANGED <<todos, input>>

\* last.raw is what the edit field held when Edit was clicked
startEditing(index) ==
  /\ ButtonsShown(index)
  /\ editingIndex' = index
  /\ editInput' = todos[index + 1].text
  /\ validationMessage' = ""
  /\ Called("startEditing", index, editInput)
  /\ UNCHANGED <<todos, input>>

\* onChange of the edit field
changeEditInput(value) ==
  /\ EditShown(editingIndex)
  /\ editInput' = value
  /\ validationMessage' = ""
  /\ Called("changeEditInput", editingIndex, <<>>)
  /\ UNCHANGED <<todos, input, editingIndex>>

saveEdit_AllItems(index) ==
  LET result == validateAndFormatText(editInput, index)
  IN  /\ Called("saveEdit", index, editInput)
      /\ IF ~result.isValid
           THEN /\ validationMessage' = result.message
                /\ UNCHANGED <<todos, input, editingIndex, editInput>>
           ELSE /\ todos' = [k \in 1..Len(todos) |-> [todos[k] EXCEPT !.text = result.formattedText]]
                /\ editingIndex' = -1
                /\ validationMessage' = ""
                /\ UNCHANGED <<input, editInput>>

saveEdit_ClosesOnError(index) ==
  LET result == validateAndFormatText(editInput, index)
  IN  /\ Called("saveEdit", index, editInput)
      /\ IF ~result.isValid
           THEN /\ validationMessage' = result.message
                /\ editingIndex' = -1
                /\ UNCHANGED <<todos, input, editInput>>
           ELSE /\ todos' = SetTextAt(todos, index, result.formattedText)
                /\ editingIndex' = -1
                /\ validationMessage' = ""
                /\ UNCHANGED <<input, editInput>>

saveEdit(index) ==
  LET result == validateAndFormatText(editInput, index)
  IN  /\ Called("saveEdit", index, editInput)
      /\ IF ~result.isValid
           THEN /\ validationMessage' = result.message
                /\ UNCHANGED <<todos, input, editingIndex, editInput>>
           ELSE /\ todos' = SetTextAt(todos, index, result.formattedText)
                /\ editingIndex' = -1
                /\ validationMessage' = ""
                /\ UNCHANGED <<input, editInput>>

cancelEdit_KeepsMessage ==
  /\ EditShown(editingIndex)
  /\ editingIndex' = -1
  /\ Called("cancelEdit", -1, <<>>)
  /\ UNCHANGED <<todos, input, editInput, validationMessage>>

cancelEdit ==
  /\ EditShown(editingIndex)
  /\ editingIndex' = -1
  /\ validationMessage' = ""
  /\ Called("cancelEdit", -1, <<>>)
  /\ UNCHANGED <<todos, input, editInput>>

(***************************************************************************)
(* The interactive specification: the component from its first render,     *)
(* driven by every handler the render makes reachable.                     *)
(***************************************************************************)
NoCall == [op |-> "mount", index |-> -1, raw |-> <<>>]

Init ==
  /\ todos = <<>>
  /\ input = <<>>
  /\ validationMessage = ""
  /\ editingIndex = -1
  /\ editInput = <<>>
  /\ last = NoCall

Next ==
  \/ \E value \in TypedInputs : changeInput(value)
  \/ addTodo
  \/ \E index \in Indices : DeleteShown(index) /\ removeTodo(index)
  \/ \E index \in Indices : toggleTodo(index)
  \/ \E index \in Indices : startEditing(index)
  \/ \E value \in TypedInputs : changeEditInput(value)
  \/ \E index \in Indices : EditShown(index) /\ saveEdit(index)
  \/ cancelEdit

Spec == Init /\ [][Next]_vars

(***************************************************************************)
(* The input specification: the component with a collection that earlier   *)
(* adds and toggles built, and any text of at most MaxLen characters in    *)
(* the add field, or in the edit field of an active item; then the         *)
(* handlers that validate a text run.                                      *)
(***************************************************************************)
\* the texts the typed inputs are stored as
SeedTexts ==
  { formatText(trim(t)) :
      t \in {r \in TypedInputs : trim(r) # <<>> /\ ~HasDisallowed(trim(r))} }

SeedItems == [text : SeedTexts, completed : BOOLEAN]

SeedCollections ==
  { c \in UNION {[1..n -> SeedItems] : n \in 0..MaxSeed} :
      \A i, j \in 1..Len(c) : i # j => c[i].text # c[j].text }

InitInputs ==
  /\ todos \in SeedCollections
  /\ validationMessage = ""
  /\ \E value \in RawInputs :
       \/ /\ input = value
          /\ editingIndex = -1
          /\ editInput = <<>>
          /\ last = [op |-> "changeInput", index |-> -1, raw |-> <<>>]
       \/ /\ input = <<>>
          /\ editingIndex \in Indices
          /\ ~todos[editingIndex + 1].completed
          /\ editInput = value
          /\ last = [op |-> "changeEditInput", index |-> editingIndex, raw |-> <<>>]

NextInputs ==
  \/ addTodo
  \/ \E index \in Indices : EditShown(index) /\ saveEdit(index)

SpecInputs == InitInputs /\ [][NextInputs]_vars

(***************************************************************************)
(* The call specification: from the states the input specification starts  *)
(* in, the handlers that take an index are called with an index that       *)
(* refers to no item, which no control of the render does.                 *)
(***************************************************************************)
NoItemIndices == {-1, Len(todos)}

NextCalls ==
  \/ \E index \in NoItemIndices : toggleTodo(index)
  \/ \E index \in NoItemIndices : removeTodo(index)
  \/ \E index \in NoItemIndices : saveEdit(index)

SpecCalls == InitInputs /\ [][NextCalls]_vars

(***************************************************************************)
(* The vocabulary of the specification document, stated on its own terms.  *)
(***************************************************************************)
Letters == {"a", "A"}
Digits == {"1"}
Space == " "

\* s without its leading and trailing white space
Trimmed(s) ==
  IF \A k \in 1..Len(s) : s[k] \in WhiteSpace THEN <<>>
  ELSE LET first == CHOOSE i \in 1..Len(s) :
                      s[i] \notin WhiteSpace /\ \A k \in 1..(i - 1) : s[k] \in WhiteSpace
           final == CHOOSE j \in 1..Len(s) :
                      s[j] \notin WhiteSpace /\ \A k \in (j + 1)..Len(s) : s[k] \in WhiteSpace
       IN  SubSeq(s, first, final)

\* s with its first character upper-cased and the others lower-cased
Capitalized(s) ==
  [k \in 1..Len(s) |->
     IF s[k] \in Letters THEN (IF k = 1 THEN "A" ELSE "a") ELSE s[k]]

\* only letters, digits and spaces, and at least one letter or digit
IsValidRaw(s) ==
  /\ \A k \in 1..Len(s) : s[k] \in Letters \cup Digits \cup {Space}
  /\ \E k \in 1..Len(s) : s[k] \in Letters \cup Digits

\* the normalized text of the valid input s
Normalized(s) == Capitalized(Trimmed(s))

\* two texts are equal under case-insensitive comparison
SameIgnoringCase(t, u) ==
  /\ Len(t) = Len(u)
  /\ \A k \in 1..Len(t) :
       \/ t[k] = u[k]
       \/ {t[k], u[k]} \subseteq Letters

\* some item of the collection c, other than the one at index except, has text t
\* up to letter case
Collides(c, t, except) ==
  \E i \in 0..(Len(c) - 1) : i # except /\ SameIgnoringCase(c[i + 1].text, t)

\* the handler op has just run
Ran(op) == last'.op = op

C2_OnlyLettersDigitsSpaces ==
  \A i \in Indices :
    /\ todos[i + 1].text # <<>>
    /\ \A k \in 1..Len(todos[i + 1].text) :
         todos[i + 1].text[k] \in Letters \cup Digits \cup {Space}

C4_DisallowedCharacterRejected ==
  [][ ( /\ Ran("addTodo")
        /\ \E k \in 1..Len(Trimmed(input)) :
             Trimmed(input)[k] \notin Letters \cup Digits \cup {Space} )
        => /\ validationMessage' = MsgInvalidCharacters
           /\ todos' = todos
    ]_vars

(***************************************************************************)
(* C5.  Special characters are removed automatically: an add whose input   *)
(* mixes letters or digits with special characters succeeds and stores the *)
(* input without them.  The code rejects such an input, so this is         *)
(* violated.                                                               *)
(***************************************************************************)
IsLetterDigitSpace(c) == c \in Letters \cup Digits \cup {Space}

\* s with the characters that are no letter, digit or space removed
Cleaned(s) == SelectSeq(s, IsLetterDigitSpace)

C5_DisallowedCharactersRemoved ==
  [][ ( /\ Ran("addTodo")
        /\ \E k \in 1..Len(input) : input[k] \notin Letters \cup Digits \cup WhiteSpace
        /\ IsValidRaw(Cleaned(input))
        /\ ~Collides(todos, Normalized(Cleaned(input)), -1) )
        => /\ validationMessage' = ""
           /\ todos' = Append(todos, [text |-> Normalized(Cleaned(input)),
                                      completed |-> FALSE])
    ]_vars

(***************************************************************************)
(* C6.  An add whose input is empty or consists only of white space fails  *)
(* with Empty and leaves the collection unchanged.                         *)
(***************************************************************************)
C6_EmptyInputRejected ==
  [][ ( /\ Ran("addTodo")
        /\ \A k \in 1..Len(input) : input[k] \in WhiteSpace )
        => /\ validationMessage' = MsgEmpty
           /\ todos' = todos
    ]_vars

\* an input of a space, a tab and a space was rejected as empty
C6_Witness ==
  /\ last.op = "addTodo"
  /\ last.raw = <<" ", "\t", " ">>
  /\ input = last.raw
  /\ validationMessage = MsgEmpty
  /\ Len(todos) = 1

C8_AddAppendsOneActiveItem ==
  [][ (Ran("addTodo") /\ validationMessage' = "")
        => /\ Len(todos') = Len(todos) + 1
           /\ ~todos'[Len(todos')].completed
           /\ \A k \in 1..Len(todos) : todos'[k] = todos[k]
    ]_vars

\* a third item was added after a completed and an active one
C8_Witness ==
  /\ last.op = "addTodo"
  /\ validationMessage = ""
  /\ Len(todos) = 3
  /\ todos[1].completed
  /\ ~todos[2].completed
  /\ ~todos[3].completed

(***************************************************************************)
(* C9.  Saving an edit of item i whose normalized text equals,             *)
(* case-insensitively, the text of an item at another index fails with     *)
(* DuplicateItem and leaves the collection unchanged.                      *)
(***************************************************************************)
C9_DuplicateEditRejected ==
  [][ ( /\ Ran("saveEdit")
        /\ IsValidRaw(editInput)
        /\ Collides(todos, Normalized(editInput), last'.index) )
        => /\ validationMessage' = MsgDuplicate
           /\ todos' = todos
    ]_vars

\* the edit of the second item to "a" was rejected: the first item is "A"
C9_Witness ==
  /\ last.op = "saveEdit"
  /\ last.index = 1
  /\ last.raw = <<"a">>
  /\ validationMessage = MsgDuplicate
  /\ Len(todos) = 2
  /\ todos[1].text = <<"A">>
  /\ todos[2].text = <<"1">>

(***************************************************************************)
(* C10.  Self-exclusion: saving an edit of item i whose input normalizes   *)
(* to item i's own text succeeds and is not reported as a duplicate.       *)
(***************************************************************************)
C10_EditToOwnTextSucceeds ==
  [][ ( /\ Ran("saveEdit")
        /\ IsValidRaw(editInput)
        /\ Normalized(editInput) = todos[last'.index + 1].text )
        => /\ validationMessage' = ""
           /\ editingIndex' = -1
           /\ todos' = todos
    ]_vars

\* the edit of the second item, "A", to " a" was saved
C10_Witness ==
  /\ last.op = "saveEdit"
  /\ last.index = 1
  /\ last.raw = <<" ", "a">>
  /\ validationMessage = ""
  /\ editingIndex = -1
  /\ Len(todos) = 2
  /\ todos[2].text = <<"A">>

(***************************************************************************)
(* C11.  A successful edit of item i replaces only the text of item i, by  *)
(* the normalized value: item i's completed flag, the length and order of  *)
(* the collection and every other item are unchanged.                      *)
(***************************************************************************)
C11_EditReplacesOnlyText ==
  [][ (Ran("saveEdit") /\ validationMessage' = "")
        => LET i == last'.index
           IN  /\ Len(todos') = Len(todos)
               /\ todos'[i + 1].text = Normalized(editInput)
               /\ todos'[i + 1].completed = todos[i + 1].completed
               /\ \A k \in 1..Len(todos) : k # i + 1 => todos'[k] = todos[k]
    ]_vars

\* the first of two items was edited to "aA " and reads "Aa"; the second,
\* completed, is as it was
C11_Witness ==
  /\ last.op = "saveEdit"
  /\ last.index = 0
  /\ last.raw = <<"a", "A", " ">>
  /\ validationMessage = ""
  /\ Len(todos) = 2
  /\ todos[1] = [text |-> <<"A", "a">>, completed |-> FALSE]
  /\ todos[2] = [text |-> <<"1">>, completed |-> TRUE]

(***************************************************************************)
(* C12.  When saving an edit fails validation, the item is unchanged, the  *)
(* message of that error is shown, and the edit stays open: the same item  *)
(* is in edit mode with the rejected input still in the edit field.        *)
(***************************************************************************)
C12_FailedSaveKeepsEditOpen ==
  [][ (Ran("saveEdit") /\ validationMessage' # "")
        => /\ todos' = todos
           /\ editingIndex' = editingIndex
           /\ editingIndex' = last'.index
           /\ editInput' = editInput
           /\ editInput' = last'.raw
           /\ validationMessage' \in {MsgEmpty, MsgInvalidCharacters, MsgDuplicate}
           /\ (\A k \in 1..Len(editInput) : editInput[k] \in WhiteSpace)
                 <=> validationMessage' = MsgEmpty
           /\ (\E k \in 1..Len(editInput) :
                 editInput[k] \notin Letters \cup Digits \cup WhiteSpace)
                 => validationMessage' \in {MsgEmpty, MsgInvalidCharacters}
           /\ IsValidRaw(editInput) => validationMessage' = MsgDuplicate
    ]_vars

\* the edit of the second item to "!a" was rejected and is still open
C12_Witness ==
  /\ last.op = "saveEdit"
  /\ last.index = 1
  /\ last.raw = <<"!", "a">>
  /\ editInput = <<"!", "a">>
  /\ editingIndex = 1
  /\ validationMessage = MsgInvalidCharacters
  /\ Len(todos) = 2
  /\ ~todos[2].completed

(***************************************************************************)
(* C13.  toggle(i) flips only item i's completed flag, and toggling item i *)
(* twice in a row gives back the collection as it was.                     *)
(***************************************************************************)
C13_ToggleFlipsOneFlag ==
  [][ Ran("toggleTodo")
        => LET i == last'.index
           IN  /\ Len(todos') = Len(todos)
               /\ todos'[i + 1].completed = ~todos[i + 1].completed
               /\ todos'[i + 1].text = todos[i + 1].text
               /\ \A k \in 1..Len(todos) : k # i + 1 => todos'[k] = todos[k]
               /\ ToggleAt(todos', i) = todos
    ]_vars

\* the second of three items was toggled back to active
C13_Witness ==
  /\ last.op = "toggleTodo"
  /\ last.index = 1
  /\ Len(todos) = 3
  /\ todos[1].completed
  /\ ~todos[2].completed
  /\ todos[3].completed

(***************************************************************************)
(* C14.  delete(i) removes exactly the item at index i: the collection     *)
(* shrinks by one, the items before i keep their index, the items after i  *)
(* move down by one, and no remaining item changes.                        *)
(***************************************************************************)
C14_DeleteRemovesOneItem ==
  [][ Ran("removeTodo")
        => LET i == last'.index
           IN  /\ Len(todos') = Len(todos) - 1
               /\ \A k \in 1..Len(todos) : k < i + 1 => todos'[k] = todos[k]
               /\ \A k \in 1..Len(todos) : k > i + 1 => todos'[k - 1] = todos[k]
    ]_vars

\* the middle one of three items was deleted
C14_Witness ==
  /\ last.op = "removeTodo"
  /\ last.index = 1
  /\ Len(todos) = 2
  /\ todos[1].text = <<"A">>
  /\ todos[2].text = <<"A", "\t", "a">>

(***************************************************************************)
(* C15.  In every reachable state the active view and the completed view   *)
(* partition the collection: every item is in exactly one of them, and     *)
(* each view lists its items in the order of the collection.               *)
(***************************************************************************)
\* view lists, in the order of c, exactly the items of c whose flag is completed
IsViewOf(view, c, completed) ==
  \E at \in [1..Len(view) -> 1..Len(c)] :
    /\ \A j, k \in 1..Len(view) : j < k => at[j] < at[k]
    /\ {at[j] : j \in 1..Len(view)} = {k \in 1..Len(c) : c[k].completed = completed}
    /\ \A j \in 1..Len(view) : view[j] = c[at[j]]

C15_ViewsPartitionCollection ==
  /\ IsViewOf(getIncompleteTodos, todos, FALSE)
  /\ IsViewOf(getCompletedTodos, todos, TRUE)
  /\ Len(getIncompleteTodos) + Len(getCompletedTodos) = Len(todos)

\* three items, the middle one completed
C15_Witness ==
  /\ Len(todos) = 3
  /\ ~todos[1].completed
  /\ todos[2].completed
  /\ ~todos[3].completed
  /\ Len(getIncompleteTodos) = 2
  /\ last.op = "toggleTodo"

(***************************************************************************)
(* C16.  Every operation is all-or-nothing: whenever add, edit, toggle or  *)
(* delete reports a failure, the collection is as it was before the call.  *)
(* add and edit report a failure by the validation message they set;       *)
(* toggle and delete set none.                                             *)
(***************************************************************************)
C16_FailureChangesNothing ==
  [][ ( \/ (Ran("addTodo") \/ Ran("saveEdit")) /\ validationMessage' # ""
        \/ (Ran("toggleTodo") \/ Ran("removeTodo"))
             /\ validationMessage' # validationMessage )
        => todos' = todos
    ]_vars

\* an add was rejected as a duplicate of one of two items; its input is kept
C16_Witness ==
  /\ last.op = "addTodo"
  /\ validationMessage = MsgDuplicate
  /\ input = last.raw
  /\ Len(todos) = 2

(***************************************************************************)
(* C17.  edit, toggle and delete, called with an index that refers to no   *)
(* item, fail with IndexOutOfRange and leave the collection and the edit   *)
(* state unchanged.  The code has no such failure: this is violated.       *)
(***************************************************************************)
CalledWithNoItem ==
  /\ Ran("toggleTodo") \/ Ran("removeTodo") \/ Ran("saveEdit")
  /\ last'.index \notin Indices

C18_CompletedTextNeverEdited ==
  [][ /\ (Ran("startEditing") \/ Ran("saveEdit")) => ~todos[last'.index + 1].completed
      /\ \A k \in 1..Len(todos) :
           todos[k].completed
             => IF Ran("removeTodo")
                  THEN \/ k = last'.index + 1
                       \/ todos'[IF k < last'.index + 1 THEN k ELSE k - 1].text
                            = todos[k].text
                  ELSE /\ Len(todos') >= Len(todos)
                       /\ todos'[k].text = todos[k].text
    ]_vars

\* the item an edit was started on has been completed with the edit pending
C18_Witness ==
  /\ last.op = "toggleTodo"
  /\ editingIndex = last.index
  /\ editingIndex \in Indices
  /\ todos[editingIndex + 1].completed
  /\ editInput # todos[editingIndex + 1].text

(***************************************************************************)
(* The scenario specification: the end-to-end scenario of the              *)
(* specification document.  Any text may be typed at any time; the adds    *)
(* are those of the scenario's two texts, in order, then toggle(0).        *)
(* "first task" is a lower-case letter, a space and a lower-case letter;   *)
(* "Second Task" has an upper-case letter first and after the space.       *)
(***************************************************************************)
FirstTask == <<"a", " ", "a">>
SecondTask == <<"A", "a", " ", "A">>

NextScenario ==
  \/ \E value \in RawInputs \cup {FirstTask, SecondTask} : changeInput(value)
  \/ Len(todos) = 0 /\ input = FirstTask /\ addTodo
  \/ Len(todos) = 1 /\ input = SecondTask /\ addTodo
  \/ Len(todos) = 2 /\ ~todos[1].completed /\ toggleTodo(0)

SpecScenario == Init /\ [][NextScenario]_vars

C20_CancelDiscardsEdit ==
  [][ Ran("cancelEdit")
        => /\ todos' = todos
           /\ editingIndex' = -1
           /\ validationMessage' = ""
    ]_vars

\* an edit in which "a!" had been typed was cancelled
C20_Witness ==
  /\ last.op = "cancelEdit"
  /\ editInput = <<"a", "!">>
  /\ editingIndex = -1
  /\ validationMessage = ""
  /\ Len(todos) = 2

(***************************************************************************)
(* C21.  Starting an edit on the active item i puts exactly item i into    *)
(* edit mode, with the edit field holding item i's current text, and does  *)
(* not change the collection.                                              *)
(***************************************************************************)
\* after the step the item at index k is rendered with the edit field
InEditModeAfter(k) ==
  /\ k \in 0..(Len(todos') - 1)
  /\ ~todos'[k + 1].completed
  /\ editingIndex' = k

C21_StartEditingPrefills ==
  [][ Ran("startEditing")
        => LET i == last'.index
           IN  /\ i \in Indices
               /\ ~todos[i + 1].completed
               /\ todos' = todos
               /\ editInput' = todos[i + 1].text
               /\ \A k \in Indices : InEditModeAfter(k) <=> k = i
    ]_vars

\* the second of two active items is being edited; the field holds its text
C21_Witness ==
  /\ last.op = "startEditing"
  /\ last.index = 1
  /\ editingIndex = 1
  /\ Len(todos) = 2
  /\ ~todos[1].completed
  /\ ~todos[2].completed
  /\ editInput = todos[2].text
  /\ editInput = <<"A", "\t", "a">>

(***************************************************************************)
(* C22.  With the 'Add as completed' option set, a successful add creates  *)
(* the item with completed = true; with the option not set, with           *)
(* completed = false.  The component has no such option: addTodo reads no  *)
(* state but input and todos, so an add does the same whatever the user    *)
(* chose, and for the choice "set" this is violated.                       *)
(***************************************************************************)
C22_AddAsCompleted ==
  [][ (Ran("addTodo") /\ validationMessage' = "")
        => \A addAsCompleted \in BOOLEAN :
             /\ Len(todos') = Len(todos) + 1
             /\ todos'[Len(todos')].completed = addAsCompleted
    ]_vars

(***************************************************************************)
(* C23.  Edit-target stability: while an edit of item X is in progress,    *)
(* an add, a toggle or a delete of another item leaves the edit pointing   *)
(* at X, so that a later successful save replaces the text of X.  A delete *)
(* of an item that precedes X moves X down by one and leaves editingIndex  *)
(* as it was, so this is violated.                                         *)
(***************************************************************************)
C23_EditTargetStable ==
  [][ ( /\ Ran("addTodo") \/ Ran("toggleTodo") \/ Ran("removeTodo")
        /\ editingIndex \in Indices
        /\ ~(Ran("removeTodo") /\ last'.index = editingIndex) )
        => /\ editingIndex' \in 0..(Len(todos') - 1)
           /\ todos'[editingIndex' + 1].text = todos[editingIndex + 1].text
    ]_vars

(***************************************************************************)
(* C24.  In every reachable state editingIndex is -1 or the index of an    *)
(* existing item that is not completed.  toggleTodo and removeTodo leave   *)
(* editingIndex as it was, so this is violated.                            *)
(***************************************************************************)
C24_EditPointerValid ==
  \/ editingIndex = -1
  \/ /\ editingIndex \in 0..(Len(todos) - 1)
     /\ ~todos[editingIndex + 1].completed

(***************************************************************************)
(* C25.  Validation precedence: every add or edit reports exactly one      *)
(* outcome, decided in the order Empty, InvalidCharacters, DuplicateItem:  *)
(* white-space-only input is Empty; input whose trimmed text has a         *)
(* character other than a letter, a digit or a space is InvalidCharacters, *)
(* whatever the collection holds; otherwise DuplicateItem if the           *)
(* normalized text collides, and success if not.  The code lets a tab      *)
(* inside the text through (C4), so this is violated.                      *)
(***************************************************************************)
C25_ValidationPrecedence ==
  [][ (Ran("addTodo") \/ Ran("saveEdit"))
        => LET raw == last'.raw
               except == IF Ran("addTodo") THEN -1 ELSE last'.index
               outcome ==
                 IF Trimmed(raw) = <<>> THEN MsgEmpty
                 ELSE IF \E k \in 1..Len(Trimmed(raw)) :
                           Trimmed(raw)[k] \notin Letters \cup Digits \cup {Space}
                   THEN MsgInvalidCharacters
                 ELSE IF Collides(todos, Normalized(raw), except) THEN MsgDuplicate
                 ELSE ""
           IN  validationMessage' = outcome
    ]_vars

(***************************************************************************)
(* C26.  Duplicate detection ignores completion status: an add or edit of  *)
(* a valid input whose normalized text matches, up to letter case, an item *)
(* that is completed fails with DuplicateItem and changes nothing; and     *)
(* when an add or edit has just been rejected as a duplicate, a toggle of  *)
(* any item leaves the same input a duplicate.                             *)
(***************************************************************************)
C26_DuplicateIgnoresCompletion ==
  [][ /\ (Ran("addTodo") \/ Ran("saveEdit"))
           => ( ( /\ IsValidRaw(last'.raw)
                  /\ \E i \in Indices :
                       /\ i # (IF Ran("addTodo") THEN -1 ELSE last'.index)
                       /\ todos[i + 1].completed
                       /\ SameIgnoringCase(todos[i + 1].text, Normalized(last'.raw)) )
                => /\ validationMessage' = MsgDuplicate
                   /\ todos' = todos )
      /\ (Ran("toggleTodo") /\ validationMessage = MsgDuplicate /\ last.op = "addTodo")
           => (validateAndFormatText(input, -1).message)' = MsgDuplicate
      /\ (Ran("toggleTodo") /\ validationMessage = MsgDuplicate /\ last.op = "saveEdit")
           => (validateAndFormatText(editInput, editingIndex).message)' = MsgDuplicate
    ]_vars

\* a save was rejected for colliding with an item that is completed
C26_Witness ==
  /\ last.op = "saveEdit"
  /\ validationMessage = MsgDuplicate
  /\ IsValidRaw(last.raw)
  /\ \E i \in Indices :
       /\ i # last.index
       /\ todos[i + 1].completed
       /\ SameIgnoringCase(todos[i + 1].text, Normalized(last.raw))

(***************************************************************************)
(* C27.  Duplicate detection depends only on the current collection: once  *)
(* the item with text t is deleted, or a successful edit has changed its   *)
(* text, and no other item has text t, the validation of an add of t, typed*)
(* in the add field, accepts it.                                           *)
(***************************************************************************)
C27_RemovedTextIsFree ==
  [][ ( /\ Ran("removeTodo") \/ (Ran("saveEdit") /\ validationMessage' = "")
        /\ last'.index \in Indices
        /\ Trimmed(input) # <<>>
        /\ SameIgnoringCase(Normalized(input), todos[last'.index + 1].text)
        /\ ~Collides(todos, todos[last'.index + 1].text, last'.index)
        /\ Ran("saveEdit")
             => ~SameIgnoringCase(todos'[last'.index + 1].text, todos[last'.index + 1].text) )
        => (validateAndFormatText(input, -1))'
             = [isValid |-> TRUE,
                formattedText |-> todos[last'.index + 1].text,
                message |-> ""]
    ]_vars

\* "A", the first of three items, was deleted with "a" typed in the add field
C27_Witness ==
  /\ last.op = "removeTodo"
  /\ last.index = 0
  /\ Len(todos) = 2
  /\ todos[1].text = <<"1">>
  /\ todos[2].text = <<"A", "\t", "a">>
  /\ input = <<"a">>

(***************************************************************************)
(* C28.  Normalization is idempotent: every stored text is a fixed point,  *)
(* validated again (its own item aside) it is accepted and formatted to    *)
(* itself.                                                                 *)
(***************************************************************************)
C28_StoredTextIsFixedPoint ==
  \A i \in Indices :
    validateAndFormatText(todos[i + 1].text, i)
      = [isValid |-> TRUE, formattedText |-> todos[i + 1].text, message |-> ""]

\* " aA" was saved over the second of two items and is stored as "Aa"
C28_Witness ==
  /\ last.op = "saveEdit"
  /\ last.index = 1
  /\ last.raw = <<" ", "a", "A">>
  /\ validationMessage = ""
  /\ Len(todos) = 2
  /\ todos[2].text = <<"A", "a">>

(***************************************************************************)
(* C29.  At most one item is in edit mode at a time: starting an edit on   *)
(* item j while the edit of item i is in progress discards the unsaved     *)
(* input for i, leaves the collection unchanged, and makes j the only item *)
(* in edit mode, the edit field holding j's text.                          *)
(***************************************************************************)
C29_OneEditAtATime ==
  [][ ( /\ Ran("startEditing")
        /\ editingIndex \in Indices
        /\ ~todos[editingIndex + 1].completed )
        => LET j == last'.index
           IN  /\ j # editingIndex
               /\ todos' = todos
               /\ editInput' = todos[j + 1].text
               /\ \A k \in Indices : InEditModeAfter(k) <=> k = j
    ]_vars

\* Edit was clicked on the second item while "a!" was typed in the edit of
\* another: the field now holds the second item's text
C29_Witness ==
  /\ last.op = "startEditing"
  /\ last.index = 1
  /\ last.raw = <<"a", "!">>
  /\ editingIndex = 1
  /\ editInput = todos[2].text
  /\ todos[1].text = <<"1">>
  /\ ~todos[1].completed
  /\ Len(todos) = 2

=============================================================================
